---- MODULE Spec2Model ----
(***************************************************************************)
(* polyscope::ScalarQuantity<QuantityT> (include/polyscope/               *)
(* scalar_quantity.ipp): the scalar-field visualization state of one     *)
(* quantity: its values, the robust data range, the colormap window       *)
(* (vizRange), the persisted isoline / colormap parameters and the lazily *)
(* created render buffer.                                                 *)
(*                                                                         *)
(* Numbers.  double and float quantities are integers in a fixed unit.    *)
(* A float keeps FloatMantissaBits significant bits, so ToFloat rounds an *)
(* integer of more bits to the nearest representable one (ties to even);  *)
(* a double holds every integer of the model exactly.  Isoline widths are *)
(* counted in 1/WidthScale of a data unit, so that the constructor's      *)
(* default (span * 0.02) is the integer span.                             *)
(***************************************************************************)
EXTENDS Integers, Sequences, FiniteSets, TLC

\* ---------------------------------------------------------------- bounds
\* Longest value array a field is constructed with or updated to.
MaxLen == 2

\* ------------------------------------------------------- program constants
\* Significand width of a C++ float (vizRange, ScaledValue<float>, buffer).
FloatMantissaBits == 24
\* 1 / 0.02: isoline widths are counted in fiftieths of a data unit.
WidthScale == 50
\* isolineDarkness default 0.7, in tenths.
DefaultDarkness == 7


\* robustMinMax's trim fraction 1e-5 = TrimNum / TrimDen.
TrimNum == 1
TrimDen == 100000

\* ---------------------------------------------------------------- numbers
Abs(x) == IF x < 0 THEN -x ELSE x

Max2(a, b) == IF a < b THEN b ELSE a

RECURSIVE Pow2(_)
Pow2(n) == IF n = 0 THEN 1 ELSE 2 * Pow2(n - 1)

\* An odd integer one past 2^24: a double that no float represents.
Big == Pow2(FloatMantissaBits) + 1

\* ----------------------------------------------------------------- inputs
\* Element values pushed into a field.
Vals == {-3, Big}

\* The arrays handed to the constructor and to updateData.
ValSeqs == UNION {[1..n -> Vals] : n \in 1..MaxLen}

DataTypes == {"STANDARD", "SYMMETRIC", "MAGNITUDE"}

ColorMaps == {"viridis", "coolwarm", "blues"}

\* Pairs handed to setMapRange: ordered, reversed, negative, not float.
MapRanges == {<<-3, 2>>, <<2, -3>>, <<1, Big>>}

\* (size, isRelative) arguments of setIsolineWidth, in 1/WidthScale units.
WidthArgs == {<<3, TRUE>>, <<5, FALSE>>, <<Big, FALSE>>}

\* Arguments of setIsolineDarkness, in tenths.
DarknessArgs == {3, Big}

\* state::lengthScale, the scene length scale ScaledValue::asAbsolute reads.
LengthScales == {1, 2}
\* Values the user can drag an end of the range slider to.
SliderVals == {-3, 0, 1}
\* Values the user can drag the isoline width and darkness to.
WidthDrags == {0, 1}
DarknessDrags == {3}
MenuItems == {"none", "reset", "isolines"}

\* What a read through a null buffer pointer can give back.
Garbage == {0, -3}

VARIABLES values, dataType, dataRange, vizRange, cMap, isolinesEnabled,
          isolineWidth, isolineDarkness, hist, scalarRenderBuffer,
          redrawRequested, lengthScale, nConstructed, lastOp,
          constructedValues, cache, program

dataVars == <<values, scalarRenderBuffer>>
rangeVars == <<dataRange, vizRange>>
\* The four persisted cells and the persistence store behind them.
paramVars == <<cMap, isolinesEnabled, isolineWidth, isolineDarkness, cache>>
\* What only construction sets.
fixedVars == <<dataType, lengthScale, nConstructed, constructedValues>>
vars == <<values, dataType, dataRange, vizRange, cMap, isolinesEnabled,
          isolineWidth, isolineDarkness, hist, scalarRenderBuffer,
          redrawRequested, lengthScale, nConstructed, lastOp,
          constructedValues, cache, program>>

\* ------------------------------------------------------------ float
\* 2^24: below it every integer is a float.
FloatLimit == Pow2(FloatMantissaBits)

\* The spacing of floats around a >= 0: 1 below 2^24, doubling per binade.
RECURSIVE Ulp(_, _)
Ulp(a, u) == IF a < u * FloatLimit THEN u ELSE Ulp(a, 2 * u)

\* double -> float, round to nearest, ties to even.
ToFloat(x) ==
  LET a == Abs(x)
      u == Ulp(a, 1)
      q == a \div u
      r == a % u
      up == (2 * r > u) \/ (2 * r = u /\ q % 2 = 1)
      m == (IF up THEN q + 1 ELSE q) * u
  IN IF x < 0 THEN -m ELSE m

FloatSeq(s) == [i \in 1..Len(s) |-> ToFloat(s[i])]

FloatPair(p) == <<ToFloat(p[1]), ToFloat(p[2])>>

\* ------------------------------------------------- collaborators (not in src)
\* The k-th smallest element (k from 0) of a non-empty sequence.
KthSmallest(s, k) ==
  CHOOSE v \in {s[i] : i \in 1..Len(s)} :
    /\ Cardinality({i \in 1..Len(s) : s[i] < v}) <= k
    /\ k < Cardinality({i \in 1..Len(s) : s[i] <= v})

\* robustMinMax(values, 1e-5): the extremes left after dropping the bottom and
\* top 1e-5 fraction of the sorted values; a zero-width result is widened.
robustMinMax(s) ==
  LET k == (Len(s) * TrimNum) \div TrimDen
      lo == KthSmallest(s, k)
      hi == KthSmallest(s, Len(s) - 1 - k)
  IN IF lo = hi THEN <<lo - 1, hi + 1>> ELSE <<lo, hi>>

\* defaultColorMap(dataType).
defaultColorMap(dt) ==
  CASE dt = "STANDARD" -> "viridis"
    [] dt = "SYMMETRIC" -> "coolwarm"
    [] dt = "MAGNITUDE" -> "blues"

\* ScaledValue<float>(size, isRelative): the size is narrowed to float.
ScaledValue(size, isRelative) == [value |-> ToFloat(size), relative |-> isRelative]

\* absoluteValue(x).
absoluteValue(size) == ScaledValue(size, FALSE)

\* ScaledValue::asAbsolute(): called with no argument, so a relative value is
\* scaled by the global scene length scale, not by anything of the field.
asAbsolute(sv) == IF sv.relative THEN sv.value * lengthScale ELSE sv.value

\* standardizeArray<double, V>(newValues): a copy as a vector of doubles.
standardizeArray(nv) == [i \in 1..Len(nv) |-> nv[i]]

\* validateSize(newValues, expected, "scalar quantity") passes.
validateSizeOk(nv, expected) == Len(nv) = expected

\* AttributeBuffer::setData(values): the buffer holds the values as floats.
setData(buf, vals) == [buf EXCEPT !.isSet = TRUE, !.data = FloatSeq(vals)]

\* render::engine->generateAttributeBuffer(RenderDataType::Float).
generateAttributeBuffer ==
  [allocated |-> TRUE, isSet |-> FALSE, data |-> <<>>, handle |-> 1]

\* The null shared_ptr scalarRenderBuffer starts as.
NullBuffer == [allocated |-> FALSE, isSet |-> FALSE, data |-> <<>>, handle |-> 0]

\* The persistence store with no entry for this owner's four keys
\* (uniquePrefix() + "#cmap", "#isolinesEnabled", "#isolineWidth",
\* "#isolineDarkness").
EmptyCache ==
  [cmap |-> [has |-> FALSE, val |-> ""],
   enabled |-> [has |-> FALSE, val |-> FALSE],
   width |-> [has |-> FALSE, val |-> [value |-> 0, relative |-> FALSE]],
   darkness |-> [has |-> FALSE, val |-> 0]]

\* PersistentValue<T>(name, default): the store's entry for the name if it
\* holds one, the default otherwise.
PersistentValue(entry, default) == IF entry.has THEN entry.val ELSE default

\* PersistentValue::operator= and manuallyChanged(): the entry now holds val.
persist(val) == [has |-> TRUE, val |-> val]

\* A shader program nothing has been set on.
NoUniform == [set |-> FALSE, val |-> 0]

EmptyProgram ==
  [rules |-> <<>>,
   uniforms |-> [u_rangeLow |-> NoUniform, u_rangeHigh |-> NoUniform,
                 u_modLen |-> NoUniform, u_modDarkness |-> NoUniform]]

\* ShaderProgram::setUniform(name, value).
setUniform(us, name, value) == [us EXCEPT ![name] = [set |-> TRUE, val |-> value]]

\* A default-constructed std::pair: the histogram's colormapRange before
\* buildScalarUI first writes it.
NoColormapRange == <<0, 0>>

\* ------------------------------------------------------------ the field
\* What the last operation was, how it ended, whether it called the owner's
\* refresh(), its argument and its return value.
Op(name, status, refresh, arg, ret) ==
  [op |-> name, status |-> status, refresh |-> refresh, arg |-> arg, ret |-> ret]

\* The constructor's default isoline width, (max - min) * 0.02, in
\* 1 / WidthScale units.
defaultIsolineWidth(dr) == ((dr[2] - dr[1]) * 2 * WidthScale) \div 100

\* PolicyRange with the Symmetric pair built the wrong way round.
PolicyRange_Reversed(dt, dr) ==
  CASE dt = "STANDARD" -> FloatPair(dr)
    [] dt = "SYMMETRIC" ->
         LET absRange == Max2(Abs(dr[1]), Abs(dr[2]))
         IN FloatPair(<<absRange, -absRange>>)
    [] dt = "MAGNITUDE" -> FloatPair(<<0, dr[2]>>)

\* PolicyRange with the Symmetric case falling through to the data range.
PolicyRange_SymmetricAsStandard(dt, dr) ==
  CASE dt = "STANDARD" -> FloatPair(dr)
    [] dt = "SYMMETRIC" -> FloatPair(dr)
    [] dt = "MAGNITUDE" -> FloatPair(<<0, dr[2]>>)

\* PolicyRange with the Magnitude case keeping the data minimum.
PolicyRange_MagnitudeKeepsMin(dt, dr) ==
  CASE dt = "STANDARD" -> FloatPair(dr)
    [] dt = "SYMMETRIC" ->
         LET absRange == Max2(Abs(dr[1]), Abs(dr[2]))
         IN FloatPair(<<-absRange, absRange>>)
    [] dt = "MAGNITUDE" -> FloatPair(dr)

\* The switch of resetMapRange: the window each policy derives from dataRange.
PolicyRange(dt, dr) ==
  CASE dt = "STANDARD" -> FloatPair(dr)
    [] dt = "SYMMETRIC" ->
         LET absRange == Max2(Abs(dr[1]), Abs(dr[2]))
         IN FloatPair(<<-absRange, absRange>>)
    [] dt = "MAGNITUDE" -> FloatPair(<<0, dr[2]>>)

valuesStoredInMemory == values # <<>>

\* nValueSize() throws "buffer is not allocated when it should be".
nValueSizeThrows ==
  /\ ~valuesStoredInMemory
  /\ (~scalarRenderBuffer.allocated \/ ~scalarRenderBuffer.isSet)

\* nValueSize() when it does not throw.
nValueSize ==
  IF valuesStoredInMemory THEN Len(values) ELSE Len(scalarRenderBuffer.data)

getIsolineWidth == asAbsolute(isolineWidth)

getIsolineDarkness == isolineDarkness

getColorMap == cMap

getIsolinesEnabled == isolinesEnabled

\* ensureRenderBuffersFilled(forceRefill) on buffer buf with the values vals.
\* ensureRenderBuffersFilled generating a fresh buffer for a forced refill.
ensureRenderBuffersFilled_ReallocatesOnForce(buf, vals, forceRefill) ==
  LET createdBuffer == ~buf.allocated \/ forceRefill
      b == IF createdBuffer
             THEN [generateAttributeBuffer EXCEPT !.handle = buf.handle + 1]
             ELSE buf
  IN IF createdBuffer \/ forceRefill THEN setData(b, vals) ELSE b

ensureRenderBuffersFilled(buf, vals, forceRefill) ==
  LET createdBuffer == ~buf.allocated
      b == IF createdBuffer
             THEN [generateAttributeBuffer EXCEPT !.handle = buf.handle + 1]
             ELSE buf
  IN IF createdBuffer \/ forceRefill THEN setData(b, vals) ELSE b

\* The members the constructor leaves, given the values, the data type and
\* the persistence store it finds: initializer list, then hist.updateColormap,
\* hist.buildHistogram and resetMapRange.
\* The constructor handing the histogram the default colormap of the data
\* type instead of the colormap the cell resolved to.
ConstructedField_HistDefaultColormap(v, dt, store) ==
  LET dr == robustMinMax(v)
      cm == PersistentValue(store.cmap, defaultColorMap(dt))
  IN [values |-> v,
      dataType |-> dt,
      dataRange |-> dr,
      cMap |-> cm,
      isolinesEnabled |-> PersistentValue(store.enabled, FALSE),
      isolineWidth |->
        PersistentValue(store.width, absoluteValue(defaultIsolineWidth(dr))),
      isolineDarkness |->
        PersistentValue(store.darkness, ToFloat(DefaultDarkness)),
      hist |-> [colormap |-> defaultColorMap(dt), built |-> v,
                colormapRange |-> NoColormapRange],
      vizRange |-> PolicyRange(dt, dr)]

ConstructedField(v, dt, store) ==
  LET dr == robustMinMax(v)
      cm == PersistentValue(store.cmap, defaultColorMap(dt))
  IN [values |-> v,
      dataType |-> dt,
      dataRange |-> dr,
      cMap |-> cm,
      isolinesEnabled |-> PersistentValue(store.enabled, FALSE),
      isolineWidth |->
        PersistentValue(store.width, absoluteValue(defaultIsolineWidth(dr))),
      isolineDarkness |->
        PersistentValue(store.darkness, ToFloat(DefaultDarkness)),
      hist |-> [colormap |-> cm, built |-> v, colormapRange |-> NoColormapRange],
      vizRange |-> PolicyRange(dt, dr)]

\* The state the constructor leaves, for an owner the store knows nothing of.
Init ==
  \E v \in ValSeqs, dt \in DataTypes, ls \in LengthScales :
    LET f == ConstructedField(v, dt, EmptyCache)
    IN /\ values = f.values
       /\ dataType = f.dataType
       /\ dataRange = f.dataRange
       /\ cMap = f.cMap
       /\ isolinesEnabled = f.isolinesEnabled
       /\ isolineWidth = f.isolineWidth
       /\ isolineDarkness = f.isolineDarkness
       /\ hist = f.hist
       /\ vizRange = f.vizRange
       /\ scalarRenderBuffer = NullBuffer
       /\ redrawRequested = TRUE
       /\ lengthScale = ls
       /\ nConstructed = Len(v)
       /\ constructedValues = v
       /\ cache = EmptyCache
       /\ program = EmptyProgram
       /\ lastOp = Op("construct", "ok", FALSE, <<>>, 0)

\* The field is destroyed with its owner and a new one is constructed for an
\* owner of the same uniquePrefix(): the persistence store is what survives.
Reconstruct ==
  \E f \in {ConstructedField(v, dt, cache) : v \in ValSeqs, dt \in DataTypes} :
       /\ values' = f.values
       /\ dataType' = f.dataType
       /\ dataRange' = f.dataRange
       /\ cMap' = f.cMap
       /\ isolinesEnabled' = f.isolinesEnabled
       /\ isolineWidth' = f.isolineWidth
       /\ isolineDarkness' = f.isolineDarkness
       /\ hist' = f.hist
       /\ vizRange' = f.vizRange
       /\ scalarRenderBuffer' = NullBuffer
       /\ redrawRequested' = TRUE
       /\ nConstructed' = Len(f.values)
       /\ constructedValues' = f.values
       /\ program' = EmptyProgram
       /\ lastOp' = Op("construct", "ok", FALSE, <<>>, 0)
       /\ UNCHANGED <<cache, lengthScale>>

\* ---------------------------------------------------------- data operations
\* updateData with the assignment to values moved above validateSize.
UpdateData_AssignsBeforeValidating(nv) ==
  /\ IF nValueSizeThrows
       THEN /\ lastOp' = Op("updateData", "consistency_error", FALSE, <<Len(nv)>>, 0)
            /\ UNCHANGED <<dataVars, redrawRequested>>
       ELSE IF ~validateSizeOk(nv, nValueSize)
         THEN /\ values' = standardizeArray(nv)
              /\ lastOp' = Op("updateData", "size_mismatch", FALSE, <<Len(nv)>>, 0)
              /\ UNCHANGED <<scalarRenderBuffer, redrawRequested>>
         ELSE /\ values' = standardizeArray(nv)
              /\ scalarRenderBuffer' =
                   ensureRenderBuffersFilled(scalarRenderBuffer, values', FALSE)
              /\ redrawRequested' = TRUE
              /\ lastOp' = Op("updateData", "ok", FALSE, <<Len(nv)>>, 0)
  /\ UNCHANGED <<rangeVars, paramVars, fixedVars, program, hist>>

\* updateData(newValues): validateSize against nValueSize(), then replace
\* values and run dataUpdated().
\* updateData re-deriving dataRange from the values it has just stored.
UpdateData_RecomputesRange(nv) ==
  /\ IF nValueSizeThrows
       THEN /\ lastOp' = Op("updateData", "consistency_error", FALSE, <<Len(nv)>>, 0)
            /\ UNCHANGED <<dataVars, redrawRequested, dataRange>>
       ELSE IF ~validateSizeOk(nv, nValueSize)
         THEN /\ lastOp' = Op("updateData", "size_mismatch", FALSE, <<Len(nv)>>, 0)
              /\ UNCHANGED <<dataVars, redrawRequested, dataRange>>
         ELSE /\ values' = standardizeArray(nv)
              /\ dataRange' = robustMinMax(values')
              /\ scalarRenderBuffer' =
                   ensureRenderBuffersFilled(scalarRenderBuffer, values', FALSE)
              /\ redrawRequested' = TRUE
              /\ lastOp' = Op("updateData", "ok", FALSE, <<Len(nv)>>, 0)
  /\ UNCHANGED <<vizRange, paramVars, fixedVars, program, hist>>

UpdateData(nv) ==
  /\ IF nValueSizeThrows
       THEN /\ lastOp' = Op("updateData", "consistency_error", FALSE, <<Len(nv)>>, 0)
            /\ UNCHANGED <<dataVars, redrawRequested>>
       ELSE IF ~validateSizeOk(nv, nValueSize)
         THEN /\ lastOp' = Op("updateData", "size_mismatch", FALSE, <<Len(nv)>>, 0)
              /\ UNCHANGED <<dataVars, redrawRequested>>
         ELSE /\ values' = standardizeArray(nv)
              /\ scalarRenderBuffer' =
                   ensureRenderBuffersFilled(scalarRenderBuffer, values', FALSE)
              /\ redrawRequested' = TRUE
              /\ lastOp' = Op("updateData", "ok", FALSE, <<Len(nv)>>, 0)
  /\ UNCHANGED <<rangeVars, paramVars, fixedVars, program, hist>>

\* ensureRenderBuffersFilled(forceRefill) called by the owner.
EnsureRenderBuffersFilled(forceRefill) ==
  /\ scalarRenderBuffer' =
       ensureRenderBuffersFilled(scalarRenderBuffer, values, forceRefill)
  /\ lastOp' = Op("ensureRenderBuffersFilled", "ok", FALSE, <<forceRefill>>, 0)
  /\ UNCHANGED <<values, rangeVars, paramVars, fixedVars, program, hist, redrawRequested>>

\* getScalarRenderBuffer(): ensureRenderBuffersFilled() with the default
\* forceRefill = false, then hand out the buffer.
GetScalarRenderBuffer ==
  /\ scalarRenderBuffer' =
       ensureRenderBuffersFilled(scalarRenderBuffer, values, FALSE)
  /\ lastOp' = Op("getScalarRenderBuffer", "ok", FALSE, <<>>, 0)
  /\ UNCHANGED <<values, rangeVars, paramVars, fixedVars, program, hist, redrawRequested>>

\* renderBufferDataExternallyUpdated without values.clear().
RenderBufferDataExternallyUpdated_KeepsValues ==
  /\ redrawRequested' = TRUE
  /\ lastOp' = Op("renderBufferDataExternallyUpdated", "ok", FALSE, <<>>, 0)
  /\ UNCHANGED <<dataVars, rangeVars, paramVars, fixedVars, program, hist>>

\* renderBufferDataExternallyUpdated().
\* renderBufferDataExternallyUpdated that also resets the map range.
RenderBufferDataExternallyUpdated_ResetsMapRange ==
  /\ values' = <<>>
  /\ vizRange' = PolicyRange(dataType, dataRange)
  /\ redrawRequested' = TRUE
  /\ lastOp' = Op("renderBufferDataExternallyUpdated", "ok", FALSE, <<>>, 0)
  /\ UNCHANGED <<scalarRenderBuffer, dataRange, paramVars, fixedVars, program, hist>>

RenderBufferDataExternallyUpdated ==
  /\ values' = <<>>
  /\ redrawRequested' = TRUE
  /\ lastOp' = Op("renderBufferDataExternallyUpdated", "ok", FALSE, <<>>, 0)
  /\ UNCHANGED <<scalarRenderBuffer, rangeVars, paramVars, fixedVars, program, hist>>

\* size(): nValueSize().
Size ==
  /\ lastOp' = IF nValueSizeThrows
                 THEN Op("size", "consistency_error", FALSE, <<>>, 0)
                 ELSE Op("size", "ok", FALSE, <<>>, nValueSize)
  /\ UNCHANGED <<dataVars, rangeVars, paramVars, fixedVars, program, hist, redrawRequested>>

\* getValue(ind), ind counted from 0.  With values in memory it reads
\* values[ind]; otherwise it dereferences scalarRenderBuffer unchecked: a null
\* pointer there is undefined behaviour, a crash or any value.
GetValue(ind) ==
  /\ IF valuesStoredInMemory
       THEN /\ ind < Len(values)
            /\ lastOp' = Op("getValue", "ok", FALSE, <<ind>>, ToFloat(values[ind + 1]))
       ELSE IF ~scalarRenderBuffer.allocated
         THEN \/ lastOp' = Op("getValue", "crash", FALSE, <<ind>>, 0)
              \/ \E g \in Garbage : lastOp' = Op("getValue", "ok", FALSE, <<ind>>, g)
         ELSE /\ scalarRenderBuffer.isSet
              /\ ind < Len(scalarRenderBuffer.data)
              /\ lastOp' = Op("getValue", "ok", FALSE, <<ind>>,
                              scalarRenderBuffer.data[ind + 1])
  /\ UNCHANGED <<dataVars, rangeVars, paramVars, fixedVars, program, hist, redrawRequested>>

\* --------------------------------------------------------- range operations
\* resetMapRange that only ever widens the window it finds.
ResetMapRange_WidensPrior ==
  /\ vizRange' =
       LET p == PolicyRange(dataType, dataRange)
       IN <<IF vizRange[1] < p[1] THEN vizRange[1] ELSE p[1],
            Max2(vizRange[2], p[2])>>
  /\ redrawRequested' = TRUE
  /\ lastOp' = Op("resetMapRange", "ok", FALSE, <<>>, 0)
  /\ UNCHANGED <<dataVars, dataRange, paramVars, fixedVars, program, hist>>

\* resetMapRange().
ResetMapRange ==
  /\ vizRange' = PolicyRange(dataType, dataRange)
  /\ redrawRequested' = TRUE
  /\ lastOp' = Op("resetMapRange", "ok", FALSE, <<>>, 0)
  /\ UNCHANGED <<dataVars, dataRange, paramVars, fixedVars, program, hist>>

\* setMapRange(val): the pair of doubles is stored in the pair of floats.
SetMapRange(val) ==
  /\ vizRange' = FloatPair(val)
  /\ redrawRequested' = TRUE
  /\ lastOp' = Op("setMapRange", "ok", FALSE, val, 0)
  /\ UNCHANGED <<dataVars, dataRange, paramVars, fixedVars, program, hist>>

\* ----------------------------------------------------- parameter operations
\* setIsolinesEnabled(newEnabled).
\* setIsolinesEnabled returning early when the flag already has the value.
SetIsolinesEnabled_SkipsWhenUnchanged(newEnabled) ==
  /\ isolinesEnabled' = newEnabled
  /\ cache' = [cache EXCEPT !.enabled = persist(newEnabled)]
  /\ redrawRequested' = (redrawRequested \/ newEnabled # isolinesEnabled)
  /\ lastOp' = Op("setIsolinesEnabled", "ok", newEnabled # isolinesEnabled,
                  <<newEnabled>>, 0)
  /\ UNCHANGED <<dataVars, rangeVars, cMap, isolineWidth, isolineDarkness,
                 fixedVars, program, hist>>

SetIsolinesEnabled(newEnabled) ==
  /\ isolinesEnabled' = newEnabled
  /\ cache' = [cache EXCEPT !.enabled = persist(newEnabled)]
  /\ redrawRequested' = TRUE
  /\ lastOp' = Op("setIsolinesEnabled", "ok", TRUE, <<newEnabled>>, 0)
  /\ UNCHANGED <<dataVars, rangeVars, cMap, isolineWidth, isolineDarkness,
                 fixedVars, program, hist>>

\* setIsolineWidth calling setIsolinesEnabled(true) whatever the flag was.
SetIsolineWidth_AlwaysEnables(size, isRelative) ==
  /\ isolineWidth' = ScaledValue(size, isRelative)
  /\ isolinesEnabled' = TRUE
  /\ cache' = [cache EXCEPT
                !.width = persist(ScaledValue(size, isRelative)),
                !.enabled = IF isolinesEnabled THEN @ ELSE persist(TRUE)]
  /\ redrawRequested' = TRUE
  /\ lastOp' = Op("setIsolineWidth", "ok", TRUE, <<size, isRelative>>, 0)
  /\ UNCHANGED <<dataVars, rangeVars, cMap, isolineDarkness, fixedVars, program, hist>>

\* setIsolineWidth(size, isRelative).
SetIsolineWidth(size, isRelative) ==
  /\ isolineWidth' = ScaledValue(size, isRelative)
  /\ isolinesEnabled' = TRUE
  /\ cache' = [cache EXCEPT
                !.width = persist(ScaledValue(size, isRelative)),
                !.enabled = IF isolinesEnabled THEN @ ELSE persist(TRUE)]
  /\ redrawRequested' = TRUE
  /\ lastOp' = Op("setIsolineWidth", "ok", ~isolinesEnabled, <<size, isRelative>>, 0)
  /\ UNCHANGED <<dataVars, rangeVars, cMap, isolineDarkness, fixedVars, program, hist>>

\* setIsolineDarkness(val).
SetIsolineDarkness(val) ==
  /\ isolineDarkness' = ToFloat(val)
  /\ isolinesEnabled' = TRUE
  /\ cache' = [cache EXCEPT
                !.darkness = persist(ToFloat(val)),
                !.enabled = IF isolinesEnabled THEN @ ELSE persist(TRUE)]
  /\ redrawRequested' = TRUE
  /\ lastOp' = Op("setIsolineDarkness", "ok", ~isolinesEnabled, <<val>>, 0)
  /\ UNCHANGED <<dataVars, rangeVars, cMap, isolineWidth, fixedVars, program, hist>>

\* setColorMap writing the string behind cMap.get() instead of assigning the
\* persistent cell, so that the store never hears of it.
SetColorMap_BypassesStore(val) ==
  /\ cMap' = val
  /\ hist' = [hist EXCEPT !.colormap = val]
  /\ redrawRequested' = TRUE
  /\ lastOp' = Op("setColorMap", "ok", TRUE, <<val>>, 0)
  /\ UNCHANGED <<dataVars, rangeVars, isolinesEnabled, isolineWidth,
                 isolineDarkness, cache, fixedVars, program>>

\* setColorMap(val).
SetColorMap(val) ==
  /\ cMap' = val
  /\ cache' = [cache EXCEPT !.cmap = persist(val)]
  /\ hist' = [hist EXCEPT !.colormap = val]
  /\ redrawRequested' = TRUE
  /\ lastOp' = Op("setColorMap", "ok", TRUE, <<val>>, 0)
  /\ UNCHANGED <<dataVars, rangeVars, isolinesEnabled, isolineWidth,
                 isolineDarkness, fixedVars, program>>

\* ------------------------------------------------------------- render loop
\* The render loop draws a frame and takes the redraw request down.
\* The [v_min, v_max] the range slider of buildScalarUI is given, as floats.
SliderDomain(dt, dr) ==
  CASE dt = "STANDARD" -> <<ToFloat(dr[1]), ToFloat(dr[2])>>
    [] dt = "SYMMETRIC" ->
         LET absRange == ToFloat(Max2(Abs(dr[1]), Abs(dr[2])))
         IN <<-absRange, absRange>>
    [] dt = "MAGNITUDE" -> <<0, ToFloat(dr[2])>>

\* What the user does to the widgets during one buildScalarUI: nothing, pick
\* a colormap, press Reset, drag one end of the range slider, drag the
\* isoline width, or drag the isoline darkness.
UIEvent(kind, end, val, cmap) ==
  [kind |-> kind, end |-> end, val |-> val, cmap |-> cmap]

\* The events on the Reset button and the range slider.
RangeUIEvents ==
  {UIEvent("none", 0, 0, ""), UIEvent("reset", 0, 0, "")}
    \cup {UIEvent("range", e, x, "") : e \in {1, 2}, x \in SliderVals}

\* The events on the colormap selector and the isoline drags.
CellUIEvents ==
  {UIEvent("none", 0, 0, "")}
    \cup {UIEvent("colormap", 0, 0, c) : c \in ColorMaps}
    \cup {UIEvent("width", 0, w, "") : w \in WidthDrags}
    \cup {UIEvent("darkness", 0, d, "") : d \in DarknessDrags}

\* buildScalarUI() for one frame.  The widgets write through the pointers
\* they are given; a drag keeps its value inside [v_min, v_max] and keeps the
\* two ends of the range slider ordered.
BuildScalarUI(ev) ==
  LET selected == ev.kind = "colormap"
      reset == ev.kind = "reset"
      rangeDragged == ev.kind = "range"
      widthDragged == ev.kind = "width"
      darknessDragged == ev.kind = "darkness"
      afterReset == IF reset THEN PolicyRange(dataType, dataRange) ELSE vizRange
      dom == SliderDomain(dataType, dataRange)
      scaleWidth == ToFloat(dataRange[2] - dataRange[1])
      newWidth == [isolineWidth EXCEPT !.value = ev.val]
  IN /\ rangeDragged =>
          /\ dom[1] <= ev.val /\ ev.val <= dom[2]
          /\ ev.end = 1 => ev.val <= vizRange[2]
          /\ ev.end = 2 => vizRange[1] <= ev.val
          /\ ev.val # vizRange[ev.end]
     /\ widthDragged =>
          /\ isolinesEnabled
          /\ IF isolineWidth.relative
               THEN ev.val = 1
               ELSE 0 <= ev.val /\ ev.val <= scaleWidth
     /\ darknessDragged => isolinesEnabled
     /\ cMap' = IF selected THEN ev.cmap ELSE cMap
     /\ hist' = [hist EXCEPT !.colormap = IF selected THEN ev.cmap ELSE @,
                             !.colormapRange = afterReset]
     /\ vizRange' = IF rangeDragged
                      THEN [afterReset EXCEPT ![ev.end] = ev.val]
                      ELSE afterReset
     /\ isolineWidth' = IF widthDragged THEN newWidth ELSE isolineWidth
     /\ isolineDarkness' = IF darknessDragged THEN ev.val ELSE isolineDarkness
     /\ cache' = [cache EXCEPT
                   !.cmap = IF selected THEN persist(ev.cmap) ELSE @,
                   !.width = IF widthDragged THEN persist(newWidth) ELSE @,
                   !.darkness = IF darknessDragged THEN persist(ev.val) ELSE @]
     /\ redrawRequested' = (\/ redrawRequested
                            \/ selected
                            \/ reset
                            \/ widthDragged
                            \/ darknessDragged)
     /\ lastOp' = Op("buildScalarUI", "ok", selected, <<ev.kind>>, 0)
     /\ UNCHANGED <<dataVars, dataRange, isolinesEnabled, fixedVars, program>>

\* buildScalarOptionsUI() for one frame: no item, "Reset colormap range", or
\* "Enable isolines" clicked.
BuildScalarOptionsUI(item) ==
  /\ vizRange' = IF item = "reset" THEN PolicyRange(dataType, dataRange)
                 ELSE vizRange
  /\ isolinesEnabled' = IF item = "isolines" THEN ~isolinesEnabled
                        ELSE isolinesEnabled
  /\ cache' = [cache EXCEPT
                !.enabled = IF item = "isolines" THEN persist(~isolinesEnabled)
                            ELSE @]
  /\ redrawRequested' = (redrawRequested \/ item # "none")
  /\ lastOp' = Op("buildScalarOptionsUI", "ok", item = "isolines", <<item>>, 0)
  /\ UNCHANGED <<dataVars, dataRange, cMap, isolineWidth, isolineDarkness,
                 fixedVars, program, hist>>

\* addScalarRules(rules), by value: the caller's list with the field's rules
\* appended.
addScalarRules(rules) ==
  LET shaded == Append(rules, "SHADE_COLORMAP_VALUE")
  IN IF isolinesEnabled THEN Append(shaded, "ISOLINE_STRIPE_VALUECOLOR")
     ELSE shaded

\* setScalarUniforms(p) setting the isoline uniforms whether or not isolines
\* are enabled.
setScalarUniforms_AlwaysSetsIsolineUniforms(us) ==
  LET ranged == setUniform(setUniform(us, "u_rangeLow", vizRange[1]),
                           "u_rangeHigh", vizRange[2])
  IN setUniform(setUniform(ranged, "u_modLen", getIsolineWidth),
                "u_modDarkness", getIsolineDarkness)

\* setScalarUniforms(p): the uniforms of p after the call.
setScalarUniforms(us) ==
  LET ranged == setUniform(setUniform(us, "u_rangeLow", vizRange[1]),
                           "u_rangeHigh", vizRange[2])
  IN IF isolinesEnabled
       THEN setUniform(setUniform(ranged, "u_modLen", getIsolineWidth),
                       "u_modDarkness", getIsolineDarkness)
       ELSE ranged

\* The owner builds its shader program from the rules addScalarRules returns;
\* the new program has no uniform set.
AddScalarRules ==
  /\ program' = [rules |-> addScalarRules(<<>>),
                 uniforms |-> EmptyProgram.uniforms]
  /\ lastOp' = Op("addScalarRules", "ok", FALSE, <<>>, 0)
  /\ UNCHANGED <<dataVars, rangeVars, paramVars, fixedVars, hist, redrawRequested>>

\* setScalarUniforms(p) on the owner's program.
SetScalarUniforms ==
  /\ program' = [program EXCEPT !.uniforms = setScalarUniforms(@)]
  /\ lastOp' = Op("setScalarUniforms", "ok", FALSE, <<>>, 0)
  /\ UNCHANGED <<dataVars, rangeVars, paramVars, fixedVars, hist, redrawRequested>>

RenderFrame ==
  /\ redrawRequested
  /\ redrawRequested' = FALSE
  /\ lastOp' = Op("frame", "ok", FALSE, <<>>, 0)
  /\ UNCHANGED <<dataVars, rangeVars, paramVars, fixedVars, program, hist>>

\* ----------------------------------------------------------- specifications
DataNext ==
  \/ \E nv \in ValSeqs \cup {<<>>} : UpdateData(nv)
  \/ \E f \in BOOLEAN : EnsureRenderBuffersFilled(f)
  \/ GetScalarRenderBuffer
  \/ RenderBufferDataExternallyUpdated
  \/ Size
  \/ \E ind \in 0..(MaxLen - 1) : GetValue(ind)
  \/ RenderFrame

RangeNext ==
  \/ ResetMapRange
  \/ \E val \in MapRanges : SetMapRange(val)
  \/ \E nv \in ValSeqs : UpdateData(nv)
  \/ GetScalarRenderBuffer
  \/ RenderBufferDataExternallyUpdated
  \/ RenderFrame

ParamNext ==
  \/ \E b \in BOOLEAN : SetIsolinesEnabled(b)
  \/ \E a \in WidthArgs : SetIsolineWidth(a[1], a[2])
  \/ \E d \in DarknessArgs : SetIsolineDarkness(d)
  \/ \E c \in ColorMaps : SetColorMap(c)
  \/ Reconstruct
  \/ RenderFrame

UniformNext ==
  \/ AddScalarRules
  \/ SetScalarUniforms
  \/ \E val \in MapRanges : SetMapRange(val)
  \/ \E b \in BOOLEAN : SetIsolinesEnabled(b)
  \/ \E a \in WidthArgs : SetIsolineWidth(a[1], a[2])

UIRangeNext ==
  \/ \E ev \in RangeUIEvents : BuildScalarUI(ev)
  \/ \E item \in MenuItems : BuildScalarOptionsUI(item)
  \/ ResetMapRange
  \/ \E val \in MapRanges : SetMapRange(val)
  \/ RenderFrame

UICellNext ==
  \/ \E ev \in CellUIEvents : BuildScalarUI(ev)
  \/ \E b \in BOOLEAN : SetIsolinesEnabled(b)
  \/ \E c \in ColorMaps : SetColorMap(c)
  \/ Reconstruct
  \/ RenderFrame

UINext == UIRangeNext \/ UICellNext

Next == DataNext \/ RangeNext \/ ParamNext \/ UniformNext \/ UINext

\* Every operation of the field.
Spec == Init /\ [][Next]_vars

\* The operations on the values and the render buffer.
DataSpec == Init /\ [][DataNext]_vars

\* The operations on the colormap window, with those that replace the data the
\* window was derived from.
RangeSpec == Init /\ [][RangeNext]_vars

\* The operations on the persisted parameters.
\* The UI builders acting on the map range, with the range operations.
UIRangeSpec == Init /\ [][UIRangeNext]_vars

\* buildScalarUI acting on the persisted cells, with the operations that
\* share them and the reconstruction that reads the store.
UICellSpec == Init /\ [][UICellNext]_vars

\* The shader program's rules and uniforms, with the setters they read from.
UniformSpec == Init /\ [][UniformNext]_vars

ParamSpec == Init /\ [][ParamNext]_vars

\* ------------------------------------------------------------------ claims

\* C1: after a successful updateData(newValues) the render buffer holds
\* newValues (as floats), also when the buffer was already allocated and
\* filled before the call.
C1_BufferHoldsNewValues ==
  (lastOp.op = "updateData" /\ lastOp.status = "ok")
    => /\ scalarRenderBuffer.isSet
       /\ scalarRenderBuffer.data = FloatSeq(values)

\* C2: updateData with a sequence whose length differs from the authoritative
\* size (values.size() when values is non-empty, else the device buffer's
\* size) ends in the size-mismatch error and changes none of values, the
\* render buffer, dataRange, vizRange and the redraw flag.
C2_SizeMismatchLeavesFieldUnmodified ==
  [][(/\ lastOp'.op = "updateData"
      /\ ~(values = <<>> /\ ~scalarRenderBuffer.isSet)
      /\ lastOp'.arg[1] #
           (IF values # <<>> THEN Len(values) ELSE Len(scalarRenderBuffer.data)))
       => /\ lastOp'.status = "size_mismatch"
          /\ UNCHANGED <<values, scalarRenderBuffer, dataRange, vizRange,
                         redrawRequested>>]_vars

\* C2 witness: a rejected update of a field that lives in the device buffer
\* only, with no redraw pending.
C2_Witness ==
  /\ lastOp.op = "updateData"
  /\ lastOp.status = "size_mismatch"
  /\ values = <<>>
  /\ scalarRenderBuffer.isSet
  /\ Len(scalarRenderBuffer.data) = MaxLen
  /\ ~redrawRequested

\* C3 as written: after renderBufferDataExternallyUpdated() values is empty
\* and size() still returns the constructed size n, whatever came before the
\* call, the render buffer never having been requested included.
C3_SizeSurvivesExternalUpdate ==
  [][lastOp'.op = "renderBufferDataExternallyUpdated"
       => /\ values' = <<>>
          /\ ~nValueSizeThrows'
          /\ nValueSize' = nConstructed]_vars

\* C3 amended: after renderBufferDataExternallyUpdated() values is empty; if
\* the render buffer was filled with data before the call, size() still
\* returns the constructed size n through the device buffer; if it was never
\* allocated, size() throws the consistency error.
C3_SizeSurvivesWhenBufferFilled ==
  [][lastOp'.op = "renderBufferDataExternallyUpdated"
       => /\ values' = <<>>
          /\ (scalarRenderBuffer.isSet /\ Len(scalarRenderBuffer.data) > 0)
               => (~nValueSizeThrows' /\ nValueSize' = nConstructed)
          /\ ~scalarRenderBuffer.allocated => nValueSizeThrows']_vars

\* C3 witness: the call has cleared values and size() reads n from the buffer.
C3_Witness ==
  /\ lastOp.op = "renderBufferDataExternallyUpdated"
  /\ values = <<>>
  /\ scalarRenderBuffer.isSet
  /\ ~nValueSizeThrows
  /\ nValueSize = nConstructed
  /\ nConstructed = MaxLen

\* C4: size() and getValue(index) read through values when values is
\* non-empty and otherwise through the device buffer, and both fail with the
\* consistency error when values is empty and the buffer is unallocated or
\* unfilled.
C4_ReadsFailWhenNothingToRead ==
  /\ (lastOp.op = "size" /\ lastOp.status = "ok")
       => lastOp.ret = (IF values # <<>> THEN Len(values)
                                         ELSE Len(scalarRenderBuffer.data))
  /\ (lastOp.op = "getValue" /\ values # <<>>)
       => (lastOp.status = "ok" /\ lastOp.ret = ToFloat(values[lastOp.arg[1] + 1]))
  /\ (lastOp.op = "getValue" /\ values = <<>> /\ scalarRenderBuffer.isSet)
       => (/\ lastOp.status = "ok"
           /\ lastOp.ret = scalarRenderBuffer.data[lastOp.arg[1] + 1])
  /\ (/\ lastOp.op \in {"size", "getValue"}
      /\ values = <<>>
      /\ (~scalarRenderBuffer.allocated \/ ~scalarRenderBuffer.isSet))
       => lastOp.status = "consistency_error"

\* C5 as written: vizRange.low <= vizRange.high in every reachable state.
C5_VizRangeAlwaysOrdered == vizRange[1] <= vizRange[2]

\* C5 amended: vizRange.low <= vizRange.high holds after construction and
\* after resetMapRange unless the field is Magnitude with dataRange.max < 0,
\* and after setMapRange(pair) whenever pair.low <= pair.high.
C5_VizRangeOrderedWhenDerived ==
  /\ (/\ lastOp.op \in {"construct", "resetMapRange"}
      /\ (dataType # "MAGNITUDE" \/ dataRange[2] >= 0))
       => vizRange[1] <= vizRange[2]
  /\ (lastOp.op = "setMapRange" /\ lastOp.arg[1] <= lastOp.arg[2])
       => vizRange[1] <= vizRange[2]

\* C5 witness: a Symmetric field just reset, its window properly ordered.
C5_Witness ==
  /\ lastOp.op = "resetMapRange"
  /\ dataType = "SYMMETRIC"
  /\ vizRange[1] < vizRange[2]

\* The table of the three policies in exact arithmetic.
ExactPolicyTable ==
  CASE dataType = "STANDARD" -> dataRange
    [] dataType = "SYMMETRIC" ->
         LET r == Max2(Abs(dataRange[1]), Abs(dataRange[2])) IN <<-r, r>>
    [] dataType = "MAGNITUDE" -> <<0, dataRange[2]>>

\* C6 as written: resetMapRange (and the constructor) set vizRange to
\* dataRange for Standard, (-r, r) for Symmetric and (0, dataRange.max) for
\* Magnitude.
C6_ResetGivesExactPolicyRange ==
  lastOp.op \in {"construct", "resetMapRange"} => vizRange = ExactPolicyTable

\* C6 amended: resetMapRange sets vizRange to the policy's pair narrowed to
\* single precision, a function of dataType and dataRange alone; dataType and
\* dataRange never change, so a second resetMapRange changes nothing and every
\* resetMapRange gives the vizRange of construction.
C6_ResetDeterminedByPolicy ==
  /\ [](lastOp.op \in {"construct", "resetMapRange"}
          => vizRange = <<ToFloat(ExactPolicyTable[1]), ToFloat(ExactPolicyTable[2])>>)
  /\ [][/\ dataRange' = dataRange
        /\ dataType' = dataType
        /\ (/\ lastOp'.op = "resetMapRange"
            /\ lastOp.op \in {"construct", "resetMapRange"})
             => vizRange' = vizRange]_vars

\* C6 witness: a Standard field reset after a setMapRange, its window the
\* data range narrowed to float.
C6_Witness ==
  /\ lastOp.op = "resetMapRange"
  /\ dataType = "STANDARD"
  /\ vizRange # dataRange
  /\ vizRange = FloatPair(dataRange)

\* C7 as written: under Symmetric, vizRange.low = -vizRange.high in every
\* reachable state.
C7_SymmetricAlways ==
  dataType = "SYMMETRIC" => vizRange[1] = -vizRange[2]

\* C7 amended: under Symmetric, vizRange.low = -vizRange.high holds after
\* construction and after every resetMapRange, and every operation that does
\* not write vizRange keeps it; setMapRange and the range slider store the
\* pair they are given.
C7_SymmetricWhenDerived ==
  /\ [](dataType = "SYMMETRIC" /\ lastOp.op \in {"construct", "resetMapRange"}
          => vizRange[1] = -vizRange[2])
  /\ [][(/\ dataType = "SYMMETRIC"
         /\ lastOp'.op \notin {"setMapRange", "buildScalarUI"}
         /\ vizRange[1] = -vizRange[2])
          => vizRange'[1] = -vizRange'[2]]_vars

\* C7 witness: a Symmetric field reset to (-r, r) with r > 0.
C7_Witness ==
  /\ dataType = "SYMMETRIC"
  /\ lastOp.op = "resetMapRange"
  /\ vizRange[2] > 0
  /\ vizRange[1] = -vizRange[2]

\* C8 as written: under Magnitude, vizRange.low = 0 in every reachable state.
C8_MagnitudeAlways ==
  dataType = "MAGNITUDE" => vizRange[1] = 0

\* C8 amended: under Magnitude, vizRange.low = 0 holds after construction and
\* after every resetMapRange, and every operation that does not write
\* vizRange keeps it; setMapRange and the range slider store the pair they are
\* given.
C8_MagnitudeWhenDerived ==
  /\ [](dataType = "MAGNITUDE" /\ lastOp.op \in {"construct", "resetMapRange"}
          => vizRange[1] = 0)
  /\ [][(/\ dataType = "MAGNITUDE"
         /\ lastOp'.op \notin {"setMapRange", "buildScalarUI"}
         /\ vizRange[1] = 0)
          => vizRange'[1] = 0]_vars

\* C8 witness: a Magnitude field reset to (0, dataRange.max).
C8_Witness ==
  /\ dataType = "MAGNITUDE"
  /\ lastOp.op = "resetMapRange"
  /\ vizRange[1] = 0
  /\ vizRange[2] > 0

\* C9: after setIsolineWidth(size, isRelative) or setIsolineDarkness(value)
\* isolinesEnabled is true and the new width / darkness is stored (as a
\* float); the owner's refresh() runs exactly when isolines were disabled
\* before the call, and a redraw is requested either way.
C9_IsolineSettersEnable ==
  [][/\ lastOp'.op = "setIsolineWidth"
          => /\ isolinesEnabled'
             /\ isolineWidth' = [value |-> ToFloat(lastOp'.arg[1]),
                                 relative |-> lastOp'.arg[2]]
             /\ lastOp'.refresh = ~isolinesEnabled
             /\ redrawRequested'
     /\ lastOp'.op = "setIsolineDarkness"
          => /\ isolinesEnabled'
             /\ isolineDarkness' = ToFloat(lastOp'.arg[1])
             /\ lastOp'.refresh = ~isolinesEnabled
             /\ redrawRequested']_vars

\* C9 witness: setIsolineWidth on a field whose isolines were off has turned
\* them on through setIsolinesEnabled(true), refresh() included.
C9_Witness ==
  /\ lastOp.op = "setIsolineWidth"
  /\ lastOp.refresh
  /\ isolinesEnabled
  /\ isolineWidth.relative
  /\ redrawRequested

\* C10: after setIsolineWidth(w, relative) getIsolineWidth() returns
\* w * (dataRange.max - dataRange.min), and after setIsolineWidth(w, absolute)
\* it returns exactly w.
C10_IsolineWidthRoundTrip ==
  lastOp.op = "setIsolineWidth"
    => getIsolineWidth = (IF lastOp.arg[2]
                            THEN lastOp.arg[1] * (dataRange[2] - dataRange[1])
                            ELSE lastOp.arg[1])

\* C11: a value stored through a cell's setter survives destroying the field
\* and constructing a new one for the same owner, and a cell the store holds
\* no entry for takes its default at construction.  First for a setter
\* directly followed by the reconstruction, then for every reconstruction.
C11_PersistenceRoundTrip ==
  /\ [](/\ cache.cmap.has => cache.cmap.val = getColorMap
        /\ cache.enabled.has => cache.enabled.val = getIsolinesEnabled
        /\ cache.width.has => cache.width.val = isolineWidth
        /\ cache.darkness.has => cache.darkness.val = getIsolineDarkness)
  /\ [][lastOp'.op = "construct" =>
          /\ lastOp.op = "setColorMap" => getColorMap' = lastOp.arg[1]
          /\ lastOp.op = "setIsolinesEnabled"
               => getIsolinesEnabled' = lastOp.arg[1]
          /\ lastOp.op = "setIsolineWidth"
               => /\ isolineWidth' = [value |-> ToFloat(lastOp.arg[1]),
                                      relative |-> lastOp.arg[2]]
                  /\ getIsolinesEnabled'
          /\ lastOp.op = "setIsolineDarkness"
               => /\ getIsolineDarkness' = ToFloat(lastOp.arg[1])
                  /\ getIsolinesEnabled'
          /\ getColorMap' = (IF cache.cmap.has THEN getColorMap
                             ELSE defaultColorMap(dataType'))
          /\ getIsolinesEnabled' = (IF cache.enabled.has THEN getIsolinesEnabled
                                    ELSE FALSE)
          /\ isolineWidth' =
               (IF cache.width.has THEN isolineWidth
                ELSE [value |-> ToFloat(defaultIsolineWidth(dataRange')),
                      relative |-> FALSE])
          /\ getIsolineDarkness' = (IF cache.darkness.has THEN getIsolineDarkness
                                    ELSE ToFloat(DefaultDarkness))]_vars

\* C11 witness: a reconstructed field whose colormap is the stored one, not
\* the default of its data type, and whose darkness, never set, is the default.
C11_Witness ==
  /\ lastOp.op = "construct"
  /\ cache.cmap.has
  /\ getColorMap = "viridis"
  /\ defaultColorMap(dataType) # "viridis"
  /\ ~cache.darkness.has
  /\ getIsolineDarkness = ToFloat(DefaultDarkness)

\* C12: neither renderBufferDataExternallyUpdated nor a successful updateData
\* changes dataRange or vizRange, whatever the new values are.
C12_RangesPinnedAcrossDataChanges ==
  [][(\/ lastOp'.op = "renderBufferDataExternallyUpdated"
      \/ lastOp'.op = "updateData" /\ lastOp'.status = "ok")
       => dataRange' = dataRange /\ vizRange' = vizRange]_vars

\* C12 witness: new values are in place whose range differs from the one the
\* field holds, and a map range set by hand has survived the replacement.
C12_Witness ==
  /\ lastOp.op = "updateData"
  /\ lastOp.status = "ok"
  /\ values # constructedValues
  /\ vizRange # PolicyRange(dataType, dataRange)

\* C13 as stated: after a successful updateData, dataRange is the robust
\* range of the values the field now holds.
C13_RangeFollowsNewValues ==
  (lastOp.op = "updateData" /\ lastOp.status = "ok")
    => dataRange = robustMinMax(values)

\* C13 amended: dataRange is derived at construction only; after a successful
\* updateData it is still the robust range of the construction-time values.
C13_RangeStaysAtConstruction ==
  (lastOp.op = "updateData" /\ lastOp.status = "ok")
    => dataRange = robustMinMax(constructedValues)

\* C13 witness: a successful updateData has stored values whose robust range
\* is not the one the field keeps.
C13_Witness ==
  /\ lastOp.op = "updateData"
  /\ lastOp.status = "ok"
  /\ robustMinMax(values) # robustMinMax(constructedValues)
  /\ dataRange = robustMinMax(constructedValues)

\* C14 as stated: after construction, after every successful updateData and
\* after renderBufferDataExternallyUpdated, the histogram has been built from
\* the values the field holds.
C14_HistogramFollowsValues ==
  (\/ lastOp.op = "construct"
   \/ lastOp.op = "updateData" /\ lastOp.status = "ok"
   \/ lastOp.op = "renderBufferDataExternallyUpdated")
    => hist.built = values

\* C15: setIsolinesEnabled(flag) stores the flag, triggers the owner's refresh
\* and a redraw request, and changes nothing else, for both flag values and
\* whether or not the flag differs from the current one.
C15_SetIsolinesEnabledOnlyStoresFlag ==
  [][lastOp'.op = "setIsolinesEnabled" =>
       /\ getIsolinesEnabled' = lastOp'.arg[1]
       /\ lastOp'.refresh
       /\ redrawRequested'
       /\ UNCHANGED <<isolineWidth, isolineDarkness, cMap, vizRange, dataRange,
                      values, scalarRenderBuffer, hist>>]_vars

\* C15 witness: isolines have been switched off again after a relative width
\* was set, and the width is still there.
C15_Witness ==
  /\ lastOp.op = "setIsolinesEnabled"
  /\ lastOp.arg[1] = FALSE
  /\ ~getIsolinesEnabled
  /\ cache.width.has
  /\ isolineWidth.relative
  /\ lastOp.refresh
  /\ redrawRequested

\* C17: ensureRenderBuffersFilled allocates and uploads values when no buffer
\* exists, whatever forceRefill is; with a buffer and forceRefill false it
\* leaves handle and contents alone; with a buffer and forceRefill true it
\* uploads values into the same handle.  No operation of the field replaces
\* or releases an allocated handle.
C17_EnsureRenderBuffersFilledCases ==
  [][/\ lastOp'.op = "ensureRenderBuffersFilled" =>
          IF ~scalarRenderBuffer.allocated
            THEN /\ scalarRenderBuffer'.allocated
                 /\ scalarRenderBuffer'.isSet
                 /\ scalarRenderBuffer'.data = FloatSeq(values)
            ELSE IF ~lastOp'.arg[1]
              THEN scalarRenderBuffer' = scalarRenderBuffer
              ELSE /\ scalarRenderBuffer'.handle = scalarRenderBuffer.handle
                   /\ scalarRenderBuffer'.isSet
                   /\ scalarRenderBuffer'.data = FloatSeq(values)
     /\ scalarRenderBuffer.allocated =>
          /\ scalarRenderBuffer'.allocated
          /\ scalarRenderBuffer'.handle = scalarRenderBuffer.handle]_vars

\* C17 witness: a forced refill has brought replaced values into a buffer that
\* was allocated for the construction-time values.
C17_Witness ==
  /\ lastOp.op = "ensureRenderBuffersFilled"
  /\ lastOp.arg[1]
  /\ values # <<>>
  /\ FloatSeq(values) # FloatSeq(constructedValues)
  /\ scalarRenderBuffer.data = FloatSeq(values)
  /\ scalarRenderBuffer.handle = 1

\* C19 as stated: while the field holds no values of its own and the buffer
\* holds data, no operation other than a successful updateData alters the
\* buffer's contents or size.
C19_BufferOnlyContentsUntouched ==
  [][(/\ values = <<>>
      /\ nConstructed > 0
      /\ scalarRenderBuffer.isSet
      /\ ~(lastOp'.op = "updateData" /\ lastOp'.status = "ok"))
       => scalarRenderBuffer'.data = scalarRenderBuffer.data]_vars

\* C16: setScalarUniforms sets u_rangeLow and u_rangeHigh to the current
\* vizRange, and sets u_modLen to the effective isoline width and
\* u_modDarkness to the darkness exactly when isolines are enabled, leaving
\* them as they were otherwise; addScalarRules adds the isoline rule under
\* the same condition; setScalarUniforms changes no state of the field.
C16_UniformsMatchState ==
  [][/\ lastOp'.op = "setScalarUniforms" =>
          /\ program'.uniforms.u_rangeLow = [set |-> TRUE, val |-> vizRange[1]]
          /\ program'.uniforms.u_rangeHigh = [set |-> TRUE, val |-> vizRange[2]]
          /\ IF getIsolinesEnabled
               THEN /\ program'.uniforms.u_modLen =
                         [set |-> TRUE, val |-> getIsolineWidth]
                    /\ program'.uniforms.u_modDarkness =
                         [set |-> TRUE, val |-> getIsolineDarkness]
               ELSE /\ program'.uniforms.u_modLen = program.uniforms.u_modLen
                    /\ program'.uniforms.u_modDarkness =
                         program.uniforms.u_modDarkness
          /\ program'.rules = program.rules
          /\ UNCHANGED <<values, dataType, dataRange, vizRange, cMap,
                         isolinesEnabled, isolineWidth, isolineDarkness, hist,
                         scalarRenderBuffer, redrawRequested, cache>>
     /\ lastOp'.op = "addScalarRules" =>
          /\ program'.rules[1] = "SHADE_COLORMAP_VALUE"
          /\ (\E i \in 1..Len(program'.rules) :
                program'.rules[i] = "ISOLINE_STRIPE_VALUECOLOR")
               <=> getIsolinesEnabled]_vars

\* C16 witness: a program built without the isoline rule has had its range
\* uniforms set from a narrowed map range and its isoline uniforms left unset.
C16_Witness ==
  /\ lastOp.op = "setScalarUniforms"
  /\ ~getIsolinesEnabled
  /\ program.rules = <<"SHADE_COLORMAP_VALUE">>
  /\ program.uniforms.u_rangeLow = [set |-> TRUE, val |-> 1]
  /\ program.uniforms.u_rangeHigh = [set |-> TRUE, val |-> ToFloat(Big)]
  /\ ~program.uniforms.u_modLen.set
  /\ cache.width.has

\* C18 as stated: every change to vizRange comes with a redraw request in the
\* same operation, for resetMapRange, setMapRange and the range slider of
\* buildScalarUI.
C18_RangeChangeRequestsRedraw ==
  [][vizRange' # vizRange => redrawRequested']_vars

\* C20: once an operation has completed the histogram's colormap is the
\* field's colormap, after construction (from the store or the default),
\* after setColorMap and after a selection in buildScalarUI; setColorMap
\* stores its argument and triggers the owner's refresh and a redraw request.
C20_HistogramColormapFollowsCell ==
  /\ [](hist.colormap = getColorMap)
  /\ [][lastOp'.op = "setColorMap" =>
          /\ getColorMap' = lastOp'.arg[1]
          /\ lastOp'.refresh
          /\ redrawRequested']_vars
  /\ [][(lastOp'.op = "buildScalarUI" /\ lastOp'.arg[1] = "colormap")
          => lastOp'.refresh /\ redrawRequested']_vars

\* C20 witness: a reconstructed field shows, in cell and histogram, the
\* stored colormap and not its data type's default.
C20_Witness ==
  /\ lastOp.op = "construct"
  /\ cache.cmap.has
  /\ getColorMap = cache.cmap.val
  /\ getColorMap # defaultColorMap(dataType)
  /\ hist.colormap = getColorMap
  /\ hist.colormapRange = NoColormapRange

====
